---- MODULE Spec2Model ----
(***************************************************************************)
(* Model of the anvil telemetry bridge: MQTT topic matching and rule       *)
(* selection (src/src/mapping/mod.rs), the mapping executor                *)
(* (src/src/mapping/executor.rs) and the bridge's event loop               *)
(* (src/src/mqtt/mod.rs).                                                  *)
(*                                                                         *)
(* Topics and topic patterns are modelled already split on '/': a sequence *)
(* of segments of length >= 1 (str::split never yields an empty list).     *)
(***************************************************************************)
EXTENDS Integers, Sequences, FiniteSets, TLC

VARIABLES
    pc,         \* position of MqttBridge::run / execute_mappings
    mappings,   \* MqttBridge.mappings: the MappingConfig loaded at start
    msg,        \* the publish being handled: [topic, payload]
    writes,     \* sink writes issued for the message being handled, in order
    todo,       \* rows of the current message not yet handed to the sink
    result,     \* outcome of execute_mappings for the last message
    now,        \* the clock read by Utc::now()
    shutdown,   \* a Ctrl+C signal is waiting in the shutdown channel
    last,       \* kind of the last event returned by eventloop.poll()
    fn_in,      \* input of a function applied on its own
    fn_out      \* its output

vars == <<pc, mappings, msg, writes, todo, result, now, shutdown, last, fn_in, fn_out>>

bridge_vars == <<pc, mappings, msg, writes, todo, result, now, shutdown, last>>

fn_vars == <<fn_in, fn_out>>

----------------------------------------------------------------------------
(* Bounds of the model. *)

\* longest topic / topic pattern, in segments
MaxSegs == 3

\* longest MappingConfig.mappings drawn for find_mapping on its own
MaxRules == 2

\* the clock takes the values 0..MaxClock
MaxClock == 1

----------------------------------------------------------------------------
(* Option<T> *)

None == [some |-> FALSE]

Some(x) == [some |-> TRUE, v |-> x]

(* Sequences of 1..n segments over an alphabet *)
SegSeqs(alphabet, n) == UNION {[1..k -> alphabet] : k \in 1..n}

----------------------------------------------------------------------------
(* mapping/mod.rs: topic_matches *)

\* the while loop of topic_matches, indices shifted to 1-based
RECURSIVE match_loop(_, _, _, _)
match_loop(pattern_parts, topic_parts, pattern_idx, topic_idx) ==
    IF pattern_idx <= Len(pattern_parts) /\ topic_idx <= Len(topic_parts)
    THEN IF pattern_parts[pattern_idx] = "#"
         THEN TRUE
         ELSE IF pattern_parts[pattern_idx] = "+"
         THEN match_loop(pattern_parts, topic_parts, pattern_idx + 1, topic_idx + 1)
         ELSE IF pattern_parts[pattern_idx] = topic_parts[topic_idx]
         THEN match_loop(pattern_parts, topic_parts, pattern_idx + 1, topic_idx + 1)
         ELSE FALSE
    ELSE pattern_idx = Len(pattern_parts) + 1 /\ topic_idx = Len(topic_parts) + 1

\* a variant in which a final '#' also matches the level above it
topic_matches_parent(pattern, topic) ==
    \/ match_loop(pattern, topic, 1, 1)
    \/ /\ pattern[Len(pattern)] = "#"
       /\ Len(topic) = Len(pattern) - 1
       /\ match_loop(SubSeq(pattern, 1, Len(pattern) - 1), topic, 1, 1)

topic_matches(pattern, topic) == match_loop(pattern, topic, 1, 1)

(* mapping/mod.rs: MappingConfig::find_mapping: iter().find(..), as the     *)
(* index of the rule found (0: none)                                        *)
MatchingRules(rules, topic) ==
    {i \in 1..Len(rules) : topic_matches(rules[i].topic_pattern, topic)}

\* a variant that keeps the last matching rule
find_mapping_last(rules, topic) ==
    IF MatchingRules(rules, topic) = {} THEN 0
    ELSE CHOOSE i \in MatchingRules(rules, topic) :
            \A j \in MatchingRules(rules, topic) : j <= i

RECURSIVE find_from(_, _, _)
find_from(rules, topic, i) ==
    IF i > Len(rules) THEN 0
    ELSE IF topic_matches(rules[i].topic_pattern, topic) THEN i
    ELSE find_from(rules, topic, i + 1)

find_mapping(rules, topic) == find_from(rules, topic, 1)

----------------------------------------------------------------------------
(* Values.                                                                 *)
(*                                                                         *)
(* i64: TLC's integers are 32 bits wide, the executor's are 64: an i64 is   *)
(* the pair [hi, lo] standing for hi * Base + lo, 0 <= lo < Base.           *)
Base == 1000 * 1000

I64(n) == [hi |-> n \div Base, lo |-> n % Base]

I64Gt(a, b) == a.hi > b.hi \/ (a.hi = b.hi /\ a.lo > b.lo)

\* a / 1000 and a % 1000 of Rust, for a >= 0
I64DivThousand(a) == [hi |-> a.hi \div 1000,
                      lo |-> (a.hi % 1000) * 1000 + (a.lo \div 1000)]

I64ModThousand(a) == a.lo % 1000

\* f64: the number whole + tenths / 10
F64(whole, tenths) == [whole |-> whole, tenths |-> tenths]

\* chrono::DateTime<Utc>: seconds since the epoch and nanoseconds
Instant(secs, nsecs) == [secs |-> secs, nsecs |-> nsecs]

\* Utc::now() when the clock reads n
NowInstant(n) == Instant([hi |-> 1700, lo |-> n], 0)

(* Strings, by what the parsers of convert_value make of them:             *)
(*   plain: text no parser accepts, the segments s joined by '/'           *)
(*   int:   the decimal text of an i64        dec: a decimal with a point  *)
(*   bool:  "true" or "false"                 rfc: an RFC3339 date-time    *)
(*   json:  the JSON text of a null, an array or an object                 *)
PlainText(s) == [txt |-> "plain", s |-> s]

IntText(v) == [txt |-> "int", v |-> v]

DecText(f) == [txt |-> "dec", f |-> f]

BoolText(b) == [txt |-> "bool", b |-> b]

RfcText(t) == [txt |-> "rfc", t |-> t]

JsonText(v) == [txt |-> "json", v |-> v]

\* the only topic segment of the model that is a numeral
NumeralSegment == "7"

\* the string whose parts between '/' are segs: a topic, a capture, a key
Text(segs) ==
    IF segs = <<NumeralSegment>> THEN IntText(I64(7)) ELSE PlainText(segs)

\* str::parse::<f64>, ::<i64>, ::<bool>, DateTime::parse_from_rfc3339
parse_f64(s) ==
    IF s.txt = "int" THEN Some(F64(s.v, 0))
    ELSE IF s.txt = "dec" THEN Some(s.f)
    ELSE None

parse_i64(s) == IF s.txt = "int" THEN Some(s.v) ELSE None

parse_bool(s) == IF s.txt = "bool" THEN Some(s.b) ELSE None

parse_from_rfc3339(s) == IF s.txt = "rfc" THEN Some(s.t) ELSE None

(* serde_json::Value *)
JNull == [k |-> "null"]

JBool(b) == [k |-> "bool", b |-> b]

JInt(n) == [k |-> "num", int |-> TRUE, f |-> F64(I64(n), 0)]

JFloat(whole, tenths) == [k |-> "num", int |-> FALSE, f |-> F64(I64(whole), tenths)]

JStr(s) == [k |-> "str", s |-> s]

JArr(items) == [k |-> "arr", items |-> items]

\* members: a sequence of [key, val] with distinct keys, in the map's order
JObj(members) == [k |-> "obj", members |-> members]

Member(key, val) == [key |-> key, val |-> val]

\* Value::as_f64, as_i64, as_bool, as_str, and Display of a Number
as_f64(v) == IF v.k = "num" THEN Some(v.f) ELSE None

as_i64(v) == IF v.k = "num" /\ v.int THEN Some(v.f.whole) ELSE None

as_bool(v) == IF v.k = "bool" THEN Some(v.b) ELSE None

as_str(v) == IF v.k = "str" THEN Some(v.s) ELSE None

number_to_string(v) == IF v.int THEN IntText(v.f.whole) ELSE DecText(v.f)

\* Value::get(&str): a member of an object, None on anything else
value_get(v, key) ==
    IF v.k = "obj" /\ \E i \in 1..Len(v.members) : v.members[i].key = key
    THEN Some(v.members[CHOOSE i \in 1..Len(v.members) : v.members[i].key = key].val)
    ELSE None

(* executor.rs: FieldValue *)
FieldValue(tag, v) == [tag |-> tag, v |-> v]

(* Result<T>: Ok(v), Err(e), or a panic that unwinds out of the call *)
Ok(v) == [r |-> "ok", v |-> v]

Err(e) == [r |-> "err", e |-> e]

Panic == [r |-> "panic"]

----------------------------------------------------------------------------
(* executor.rs: extract_json_path.  A path is "." (the whole document) or   *)
(* its parts split on '.'.                                                  *)
DotPath == [dot |-> TRUE]

Path(parts) == [dot |-> FALSE, parts |-> parts]

RECURSIVE path_walk(_, _, _)
path_walk(current, parts, i) ==
    IF i > Len(parts) THEN Some(current)
    ELSE IF value_get(current, parts[i]).some
    THEN path_walk(value_get(current, parts[i]).v, parts, i + 1)
    ELSE None

extract_json_path(json, path) ==
    IF path.dot THEN Some(json) ELSE path_walk(json, path.parts, 1)

(* The regex crate, for the patterns of the model.  A pattern is invalid    *)
(* (Regex::new fails) or one of, for a literal prefix p of segments:        *)
(*   group "none":     ^p/.+$         no capture group                      *)
(*   group "rest":     ^p/(.+)$       group 1 is the rest of the topic      *)
(*   group "optional": ^p(?:/(.+))?$  group 1 takes no part in the match    *)
(*                                    when the topic is p itself            *)
InvalidRegex == [valid |-> FALSE]

Regex(prefix, group) == [valid |-> TRUE, prefix |-> prefix, group |-> group]

HasPrefix(topic, prefix) ==
    Len(topic) >= Len(prefix) /\ \A i \in 1..Len(prefix) : topic[i] = prefix[i]

Rest(topic, prefix) == SubSeq(topic, Len(prefix) + 1, Len(topic))

\* Regex::captures: None, or [len: Captures::len(), g1: Captures::get(1)]
regex_captures(re, topic) ==
    IF ~HasPrefix(topic, re.prefix) THEN None
    ELSE IF Len(topic) > Len(re.prefix)
    THEN Some([len |-> IF re.group = "none" THEN 1 ELSE 2,
               g1 |-> IF re.group = "none" THEN None
                      ELSE Some(Text(Rest(topic, re.prefix)))])
    ELSE IF re.group = "optional"
    THEN Some([len |-> 2, g1 |-> None])
    ELSE None

(* executor.rs: extract_from_topic *)
extract_from_topic(topic, pattern) ==
    IF ~pattern.valid THEN Err("Invalid regex pattern")
    ELSE LET captures == regex_captures(pattern, topic)
         IN  IF captures.some /\ captures.v.len > 1
             THEN IF captures.v.g1.some          \* captures.get(1).unwrap()
                  THEN Ok(Some(JStr(captures.v.g1.v)))
                  ELSE Panic
             ELSE Ok(None)

(* executor.rs: convert_value.  4102444800 = 4102 * Base + 444800. *)
TS_MS_THRESHOLD == [hi |-> 4102, lo |-> 444800]

(* chrono: DateTime::from_timestamp is None outside the years NaiveDate    *)
(* holds, -262143-01-01T00:00:00Z to +262142-12-31T23:59:59Z.              *)
FROM_TIMESTAMP_MIN == [hi |-> -8334602, lo |-> 684800]

FROM_TIMESTAMP_MAX == [hi |-> 8210266, lo |-> 876799]

from_timestamp(secs, nsecs) ==
    IF I64Gt(FROM_TIMESTAMP_MIN, secs) \/ I64Gt(secs, FROM_TIMESTAMP_MAX)
    THEN None
    ELSE Some(Instant(secs, nsecs))

\* a variant that reads every integer as a count of seconds
unix_timestamp_seconds(ts_num) == from_timestamp(ts_num, 0)

\* a variant whose bound is inclusive: 4102444800 itself is milliseconds
unix_timestamp_inclusive(ts_num) ==
    IF ~I64Gt(TS_MS_THRESHOLD, ts_num)
    THEN from_timestamp(I64DivThousand(ts_num), I64ModThousand(ts_num) * 1000000)
    ELSE from_timestamp(ts_num, 0)

\* the Unix-timestamp branch: from_timestamp(secs, nsecs) of an integer text
unix_timestamp(ts_num) ==
    IF I64Gt(ts_num, TS_MS_THRESHOLD)
    THEN from_timestamp(I64DivThousand(ts_num), I64ModThousand(ts_num) * 1000000)
    ELSE from_timestamp(ts_num, 0)

convert_timestamp(value) ==
    IF ~as_str(value).some THEN Err("Timestamp must be a string")
    ELSE LET ts_str == as_str(value).v
         IN  IF parse_from_rfc3339(ts_str).some
             THEN Ok(FieldValue("Timestamp", parse_from_rfc3339(ts_str).v))
             ELSE IF parse_i64(ts_str).some /\ unix_timestamp(parse_i64(ts_str).v).some
             THEN Ok(FieldValue("Timestamp", unix_timestamp(parse_i64(ts_str).v).v))
             ELSE Err("Cannot parse timestamp")

convert_value(value, target_type) ==
    CASE target_type = "String" ->
            Ok(FieldValue("String",
                CASE value.k = "str" -> value.s
                  [] value.k = "num" -> number_to_string(value)
                  [] value.k = "bool" -> BoolText(value.b)
                  [] OTHER -> JsonText(value)))
      [] target_type = "Number" ->
            LET num == IF as_f64(value).some THEN as_f64(value)
                       ELSE IF as_str(value).some THEN parse_f64(as_str(value).v)
                       ELSE None
            IN  IF num.some THEN Ok(FieldValue("Number", num.v))
                ELSE Err("Cannot convert to number")
      [] target_type = "Integer" ->
            LET int == IF as_i64(value).some THEN as_i64(value)
                       ELSE IF as_str(value).some THEN parse_i64(as_str(value).v)
                       ELSE None
            IN  IF int.some THEN Ok(FieldValue("Integer", int.v))
                ELSE Err("Cannot convert to integer")
      [] target_type = "Boolean" ->
            LET bool == IF as_bool(value).some THEN as_bool(value)
                       ELSE IF as_str(value).some THEN parse_bool(as_str(value).v)
                       ELSE None
            IN  IF bool.some THEN Ok(FieldValue("Boolean", bool.v))
                ELSE Err("Cannot convert to boolean")
      [] target_type = "Timestamp" -> convert_timestamp(value)

----------------------------------------------------------------------------
(* mapping/mod.rs: FieldMapping, ExpandConfig, TopicMapping.  The insert    *)
(* mode and the key of a TopicMapping are never read by the executor and    *)
(* are left out.                                                            *)
FieldMapping(source, path, extract, value, target, type, default) ==
    [source |-> source, path |-> path, extract |-> extract, value |-> value,
     target |-> target, type |-> type, default |-> default]

ExpandConfig(enabled, exclude, sensor_name_from, value_from, include_fields) ==
    [enabled |-> enabled, exclude |-> exclude,
     sensor_name_from |-> sensor_name_from, value_from |-> value_from,
     include_fields |-> include_fields]

TopicMapping(name, topic_pattern, table, fields, expand_numeric_fields) ==
    [name |-> name, topic_pattern |-> topic_pattern, table |-> table,
     fields |-> fields, expand_numeric_fields |-> expand_numeric_fields]

\* the default that stands for the current time
NowText == PlainText(<<"now">>)

(* executor.rs: extract_field_value, in its three steps *)
raw_value(topic, json, mapping, clock) ==
    CASE mapping.source = "Json" ->
            IF mapping.path.some
            THEN Ok(extract_json_path(json, mapping.path.v))
            ELSE Err("JSON source requires 'path' field")
      [] mapping.source = "Topic" ->
            IF mapping.extract.some
            THEN extract_from_topic(topic, mapping.extract.v)
            ELSE Ok(Some(JStr(Text(topic))))
      [] mapping.source = "CurrentTime" ->
            Ok(Some(JStr(RfcText(NowInstant(clock)))))
      [] mapping.source = "Constant" ->
            IF mapping.value.some
            THEN Ok(Some(JStr(mapping.value.v)))
            ELSE Err("Constant source requires 'value' field")

\* a variant without the "now" sentinel: every default is used verbatim
value_or_default_verbatim(raw, mapping, clock) ==
    IF raw.some THEN raw
    ELSE IF mapping.default.some THEN Some(JStr(mapping.default.v))
    ELSE None

\* "Use default if no value found"
value_or_default(raw, mapping, clock) ==
    IF raw.some THEN raw
    ELSE IF mapping.default.some
    THEN IF mapping.default.v = NowText
         THEN Some(JStr(RfcText(NowInstant(clock))))
         ELSE Some(JStr(mapping.default.v))
    ELSE None

\* a variant that stores a default as it is written, a String, unconverted
extract_field_value_raw_default(topic, json, mapping, clock) ==
    LET raw == raw_value(topic, json, mapping, clock)
    IN  IF raw.r # "ok" THEN raw
        ELSE IF ~raw.v.some /\ mapping.default.some
        THEN Ok(Some(FieldValue("String", mapping.default.v)))
        ELSE LET value == value_or_default(raw.v, mapping, clock)
             IN  IF ~value.some THEN Ok(None)
                 ELSE LET converted == convert_value(value.v, mapping.type)
                      IN  IF converted.r = "ok" THEN Ok(Some(converted.v))
                          ELSE converted

extract_field_value(topic, json, mapping, clock) ==
    LET raw == raw_value(topic, json, mapping, clock)
    IN  IF raw.r # "ok" THEN raw
        ELSE LET value == value_or_default(raw.v, mapping, clock)
             IN  IF ~value.some THEN Ok(None)
                 ELSE LET converted == convert_value(value.v, mapping.type)
                      IN  IF converted.r = "ok" THEN Ok(Some(converted.v))
                          ELSE converted

(* A row's data, HashMap<String, FieldValue>, as a set of [col, val] with   *)
(* distinct columns; HashMap::insert replaces the value of a column.        *)
row_insert(row_data, col, val) ==
    {c \in row_data : c.col # col} \cup {[col |-> col, val |-> val]}

Columns(row_data) == {c.col : c \in row_data}

\* the orders in which a HashMap may hand out the keys S
Orders(S) ==
    {o \in [1..Cardinality(S) -> S] : \A i, j \in DOMAIN o : i # j => o[i] # o[j]}

\* field_mapping.target.as_ref().unwrap_or(field_name)
target_of(fields, field_name) ==
    IF fields[field_name].target.some THEN fields[field_name].target.v
    ELSE field_name

\* a variant that skips a field whose extraction fails and keeps the others
RECURSIVE collect_fields_skip_failed(_, _, _, _, _, _, _, _)
collect_fields_skip_failed(topic, json, fields, wanted, order, i, clock, row_data) ==
    IF i > Len(order) THEN Ok(row_data)
    ELSE LET value == IF order[i] \in wanted
                      THEN extract_field_value(topic, json, fields[order[i]], clock)
                      ELSE Ok(None)
         IN  collect_fields_skip_failed(topic, json, fields, wanted, order, i + 1, clock,
                 IF value.r = "ok" /\ value.v.some
                 THEN row_insert(row_data, target_of(fields, order[i]), value.v.v)
                 ELSE row_data)

(* The loop over mapping.fields of execute_standard_mapping and of          *)
(* execute_expanded_mapping (which skips the fields not in wanted), the     *)
(* fields visited in the given order.                                       *)
RECURSIVE collect_fields(_, _, _, _, _, _, _, _)
collect_fields(topic, json, fields, wanted, order, i, clock, row_data) ==
    IF i > Len(order) THEN Ok(row_data)
    ELSE IF order[i] \notin wanted
    THEN collect_fields(topic, json, fields, wanted, order, i + 1, clock, row_data)
    ELSE LET value == extract_field_value(topic, json, fields[order[i]], clock)
         IN  IF value.r # "ok" THEN value
             ELSE collect_fields(topic, json, fields, wanted, order, i + 1, clock,
                     IF value.v.some
                     THEN row_insert(row_data, target_of(fields, order[i]), value.v.v)
                     ELSE row_data)

Row(table, data) == [table |-> table, data |-> data]

\* a variant that hands an empty row to the sink like any other
standard_rows_write_empty(topic, json, mapping, order, clock) ==
    LET row_data == collect_fields(topic, json, mapping.fields,
                                   DOMAIN mapping.fields, order, 1, clock, {})
    IN  IF row_data.r # "ok" THEN row_data
        ELSE Ok(<<Row(mapping.table, row_data.v)>>)

(* executor.rs: execute_standard_mapping, up to its insert_row: the rows to *)
(* hand to the sink.  insert_row writes nothing for an empty row.           *)
standard_rows(topic, json, mapping, order, clock) ==
    LET row_data == collect_fields(topic, json, mapping.fields,
                                   DOMAIN mapping.fields, order, 1, clock, {})
    IN  IF row_data.r # "ok" THEN row_data
        ELSE IF row_data.v = {} THEN Ok(<<>>)
        ELSE Ok(<<Row(mapping.table, row_data.v)>>)

\* a variant that forgets the exclude list
RECURSIVE expand_members_no_exclude(_, _, _, _, _)
expand_members_no_exclude(members, i, table, expand_config, base_fields) ==
    IF i > Len(members) THEN <<>>
    ELSE LET rest == expand_members_no_exclude(members, i + 1, table, expand_config,
                                               base_fields)
             num == as_f64(members[i].val)
         IN  IF num.some
             THEN <<Row(table,
                        row_insert(
                            row_insert(base_fields, expand_config.sensor_name_from,
                                       FieldValue("String", Text(<<members[i].key>>))),
                            expand_config.value_from,
                            FieldValue("Number", num.v)))>> \o rest
             ELSE rest

(* executor.rs: execute_expanded_mapping: the rows of its loop, in the      *)
(* object's member order                                                    *)
RECURSIVE expand_members(_, _, _, _, _)
expand_members(members, i, table, expand_config, base_fields) ==
    IF i > Len(members) THEN <<>>
    ELSE LET rest == expand_members(members, i + 1, table, expand_config, base_fields)
             num == as_f64(members[i].val)
         IN  IF members[i].key \in expand_config.exclude THEN rest
             ELSE IF num.some
             THEN <<Row(table,
                        row_insert(
                            row_insert(base_fields, expand_config.sensor_name_from,
                                       FieldValue("String", Text(<<members[i].key>>))),
                            expand_config.value_from,
                            FieldValue("Number", num.v)))>> \o rest
             ELSE rest

\* a variant that takes a payload that is no object for one without members
expanded_rows_lenient(topic, json, mapping, expand_config, order, clock) ==
    LET base_fields == collect_fields(topic, json, mapping.fields,
                                      expand_config.include_fields, order, 1, clock, {})
    IN  IF base_fields.r # "ok" THEN base_fields
        ELSE IF json.k # "obj" THEN Ok(<<>>)
        ELSE Ok(expand_members(json.members, 1, mapping.table, expand_config,
                               base_fields.v))

expanded_rows(topic, json, mapping, expand_config, order, clock) ==
    LET base_fields == collect_fields(topic, json, mapping.fields,
                                      expand_config.include_fields, order, 1, clock, {})
    IN  IF base_fields.r # "ok" THEN base_fields
        ELSE IF json.k # "obj" THEN Err("JSON is not an object")
        ELSE Ok(expand_members(json.members, 1, mapping.table, expand_config,
                               base_fields.v))

(* serde_json::from_str of the decoded payload *)
from_str(text) ==
    CASE text.txt = "json" -> Some(text.v)
      [] text.txt = "int" -> Some([k |-> "num", int |-> TRUE, f |-> F64(text.v, 0)])
      [] text.txt = "dec" -> Some([k |-> "num", int |-> FALSE, f |-> text.f])
      [] text.txt = "bool" -> Some(JBool(text.b))
      [] OTHER -> None

\* whether the rule runs in expansion mode (executor.rs, lines 57-58)
expansion_enabled(mapping) ==
    mapping.expand_numeric_fields.some /\ mapping.expand_numeric_fields.v.enabled

\* a variant that falls back on the first rule when no pattern matches
mapped_rows_fallback(topic, payload_str, rules, order, clock) ==
    LET json_value == from_str(payload_str)
        missed == find_mapping(rules, topic) = 0
        found == IF missed /\ rules # <<>> THEN 1 ELSE find_mapping(rules, topic)
        visit == IF missed /\ rules # <<>>
                 THEN CHOOSE o \in Orders(DOMAIN rules[1].fields) : TRUE
                 ELSE order
    IN  IF ~json_value.some THEN Ok(<<>>)
        ELSE IF found = 0 THEN Ok(<<>>)
        ELSE IF expansion_enabled(rules[found])
        THEN expanded_rows(topic, json_value.v, rules[found],
                           rules[found].expand_numeric_fields.v, visit, clock)
        ELSE standard_rows(topic, json_value.v, rules[found], visit, clock)

(* executor.rs: execute_mappings after the raw insert: parse, select,       *)
(* dispatch.  Ok(rows to write), Err or Panic.                              *)
mapped_rows(topic, payload_str, rules, order, clock) ==
    LET json_value == from_str(payload_str)
        found == find_mapping(rules, topic)
    IN  IF ~json_value.some THEN Ok(<<>>)
        ELSE IF found = 0 THEN Ok(<<>>)
        ELSE IF expansion_enabled(rules[found])
        THEN expanded_rows(topic, json_value.v, rules[found],
                           rules[found].expand_numeric_fields.v, order, clock)
        ELSE standard_rows(topic, json_value.v, rules[found], order, clock)

----------------------------------------------------------------------------
(* The configurations and the messages of the model. *)

Sources == {"Json", "Topic", "CurrentTime", "Constant"}

FieldTypes == {"String", "Number", "Integer", "Boolean", "Timestamp"}

\* the device id: the rest of the topic after "d/"
field_device ==
    FieldMapping("Topic", None, Some(Regex(<<"d">>, "rest")), None,
                 Some("device_id"), "String", Some(PlainText(<<"unknown">>)))

field_ts ==
    FieldMapping("Json", Some(Path(<<"ts">>)), None, None, None,
                 "Timestamp", Some(NowText))

field_temp ==
    FieldMapping("Json", Some(Path(<<"temp">>)), None, None, None, "Number", None)

field_seq ==
    FieldMapping("Json", Some(Path(<<"seq">>)), None, None, None, "Integer", None)

\* topic patterns whose group is optional
field_tail ==
    FieldMapping("Topic", None, Some(Regex(<<"e", "x">>, "optional")), None, None,
                 "String", None)

field_group ==
    FieldMapping("Topic", None, Some(Regex(<<"d">>, "optional")), None, None,
                 "String", None)

field_site ==
    FieldMapping("Constant", None, None, Some(PlainText(<<"lab">>)), None,
                 "String", None)

\* a constant without its value: a malformed rule
field_novalue ==
    FieldMapping("Constant", None, None, None, None, "String", None)

field_loc ==
    FieldMapping("Json", Some(Path(<<"meta", "loc">>)), None, None, None,
                 "String", None)

rule_readings ==
    TopicMapping("readings", <<"d", "+">>, "readings",
                 [device |-> field_device, ts |-> field_ts, temp |-> field_temp],
                 None)

rule_telemetry ==
    TopicMapping("telemetry", <<"e", "#">>, "telemetry",
                 [device |-> field_device, ts |-> field_ts, seq |-> field_seq,
                  tail |-> field_tail, temp |-> field_temp],
                 Some(ExpandConfig(TRUE, {"ts", "dev", "seq"}, "sensor_name", "value",
                                   {"device", "ts", "seq", "tail"})))

rule_all ==
    TopicMapping("all", <<"#">>, "events",
                 [group |-> field_group, loc |-> field_loc], None)

\* the time of processing
field_at ==
    FieldMapping("CurrentTime", None, None, None, Some("received_at"),
                 "Timestamp", None)

\* expansion configured but switched off
rule_flat ==
    TopicMapping("flat", <<"e", "+">>, "flat",
                 [temp |-> field_temp, site |-> field_site, at |-> field_at],
                 Some(ExpandConfig(FALSE, {}, "sensor_name", "value", {"temp"})))

rule_broken ==
    TopicMapping("broken", <<"d">>, "broken",
                 [site |-> field_novalue, group |-> field_group], None)

\* a rule without fields
rule_bare == TopicMapping("bare", <<"e", "+">>, "bare", <<>>, None)

MappingSets ==
    { <<rule_readings, rule_telemetry, rule_all>>,
      <<rule_all, rule_readings>>,
      <<rule_broken, rule_flat, rule_telemetry>>,
      <<rule_bare, rule_readings>>,
      <<>> }

Topics == { <<"d", "x">>, <<"d">>, <<"e", "x">>, <<"e", "x", "y">> }

some_time == RfcText(Instant([hi |-> 1704, lo |-> 67200], 0))

doc_full ==
    JObj(<<Member("temp", JInt(80)), Member("ph", JFloat(2, 4)),
           Member("dev", JStr(PlainText(<<"x">>))), Member("ts", JStr(some_time)),
           Member("seq", JInt(3))>>)

doc_short == JObj(<<Member("ph", JFloat(2, 4)), Member("temp", JInt(80))>>)

doc_text_temp ==
    JObj(<<Member("temp", JStr(PlainText(<<"warm">>))),
           Member("meta", JObj(<<Member("loc", JStr(PlainText(<<"lab">>)))>>))>>)

doc_numeric_ts == JObj(<<Member("ts", JInt(1700000000)), Member("temp", JInt(80))>>)

Utf8(text) == [utf8 |-> TRUE, text |-> text]

InvalidUtf8 == [utf8 |-> FALSE]

Payloads ==
    { InvalidUtf8,
      Utf8(PlainText(<<"hello">>)),
      Utf8(IntText(I64(5))),
      Utf8(BoolText(TRUE)),
      Utf8(JsonText(JNull)),
      Utf8(JsonText(JStr(PlainText(<<"hi">>)))),
      Utf8(JsonText(JArr(<<JInt(1)>>))),
      Utf8(JsonText(doc_full)),
      Utf8(JsonText(doc_short)),
      Utf8(JsonText(doc_text_temp)),
      Utf8(JsonText(doc_numeric_ts)) }

----------------------------------------------------------------------------
(* The bridge: MqttBridge::run, handle_event and execute_mappings, one      *)
(* action per stretch of code between two awaits.                           *)

Unit == "()"

\* a variant that decodes lossily, as String::from_utf8_lossy does
from_utf8_lossy(payload) ==
    Ok(IF payload.utf8 THEN payload.text ELSE PlainText(<<"?">>))

\* String::from_utf8(payload.to_vec())
from_utf8(payload) ==
    IF payload.utf8 THEN Ok(payload.text) ELSE Err("invalid utf-8 sequence")

Running == [r |-> "none"]

NoMessage == [topic |-> <<>>, payload |-> InvalidUtf8]

NoInput == [op |-> "none"]

NoOutput == [r |-> "none"]

\* a variant that stamps the audit row with the epoch, not the receipt time
RawWrite_epoch(topic, payload, timestamp) ==
    [kind |-> "raw", topic |-> topic, payload |-> payload,
     timestamp |-> Instant(I64(0), 0), status |-> "pending"]

\* db/mod.rs: RawMessage::insert, and insert_row's execute, as sink writes
RawWrite(topic, payload, timestamp) ==
    [kind |-> "raw", topic |-> topic, payload |-> payload,
     timestamp |-> timestamp, status |-> "pending"]

RowWrite(row) ==
    [kind |-> "row", table |-> row.table, data |-> row.data, status |-> "pending"]

\* the sink's answer to the write awaited
Answered(ws, ok) ==
    [ws EXCEPT ![Len(ws)].status = IF ok THEN "ok" ELSE "failed"]

\* the orders in which the selected rule's fields may be visited
FieldOrders(rules, topic) ==
    IF find_mapping(rules, topic) = 0 THEN {<<>>}
    ELSE Orders(DOMAIN rules[find_mapping(rules, topic)].fields)

Init ==
    /\ pc = "poll"
    /\ mappings \in MappingSets
    /\ msg = NoMessage
    /\ writes = <<>>
    /\ todo = <<>>
    /\ result = Running
    /\ now = 0
    /\ shutdown = FALSE
    /\ last = "none"
    /\ fn_in = NoInput
    /\ fn_out = NoOutput

\* a variant that remembers the last message and drops a repetition of it
Receive_dedup(topic, payload) ==
    /\ pc = "poll"
    /\ msg' = [topic |-> topic, payload |-> payload]
    /\ last' = "publish"
    /\ todo' = <<>>
    /\ IF from_utf8(payload).r = "ok" /\ msg # [topic |-> topic, payload |-> payload]
       THEN /\ writes' = <<RawWrite(topic, from_utf8(payload).v, NowInstant(now))>>
            /\ result' = Running
            /\ pc' = "raw_insert"
       ELSE /\ writes' = <<>>
            /\ result' = Ok(Unit)
            /\ pc' = "poll"
    /\ UNCHANGED <<mappings, now, shutdown, fn_in, fn_out>>

(* run: poll() returns a publish; handle_event; execute_mappings up to the  *)
(* await of the raw insert                                                  *)
Receive(topic, payload) ==
    /\ pc = "poll"
    /\ msg' = [topic |-> topic, payload |-> payload]
    /\ last' = "publish"
    /\ todo' = <<>>
    /\ IF from_utf8(payload).r = "ok"
       THEN /\ writes' = <<RawWrite(topic, from_utf8(payload).v, NowInstant(now))>>
            /\ result' = Running
            /\ pc' = "raw_insert"
       ELSE /\ writes' = <<>>
            /\ result' = Ok(Unit)
            /\ pc' = "poll"
    /\ UNCHANGED <<mappings, now, shutdown, fn_in, fn_out>>

\* a variant that issues the writes of all the rows at once, as one batch
Dispatch_batch(ws, plan) ==
    IF plan.r = "panic"
    THEN /\ pc' = "panicked"
         /\ result' = Panic
         /\ todo' = <<>>
         /\ writes' = ws
    ELSE IF plan.r = "err"
    THEN /\ pc' = "poll"
         /\ result' = plan
         /\ todo' = <<>>
         /\ writes' = ws
    ELSE IF plan.v = <<>>
    THEN /\ pc' = "poll"
         /\ result' = Ok(Unit)
         /\ todo' = <<>>
         /\ writes' = ws
    ELSE /\ pc' = "row_insert"
         /\ result' = Running
         /\ todo' = <<>>
         /\ writes' = ws \o [i \in 1..Len(plan.v) |-> RowWrite(plan.v[i])]

\* what follows the computation of the rows: the first insert_row, or the end
Dispatch(ws, plan) ==
    IF plan.r = "panic"
    THEN /\ pc' = "panicked"
         /\ result' = Panic
         /\ todo' = <<>>
         /\ writes' = ws
    ELSE IF plan.r = "err"
    THEN /\ pc' = "poll"
         /\ result' = plan
         /\ todo' = <<>>
         /\ writes' = ws
    ELSE IF plan.v = <<>>
    THEN /\ pc' = "poll"
         /\ result' = Ok(Unit)
         /\ todo' = <<>>
         /\ writes' = ws
    ELSE /\ pc' = "row_insert"
         /\ result' = Running
         /\ todo' = Tail(plan.v)
         /\ writes' = Append(ws, RowWrite(Head(plan.v)))

(* execute_mappings from the answer to the raw insert to the next await *)
RawInsertDone(ok) ==
    /\ pc = "raw_insert"
    /\ IF ok
       THEN \E order \in FieldOrders(mappings, msg.topic) :
                Dispatch(Answered(writes, TRUE),
                         mapped_rows(msg.topic, writes[1].payload, mappings, order, now))
       ELSE /\ pc' = "poll"
            /\ result' = Err("Failed to insert raw message")
            /\ todo' = <<>>
            /\ writes' = Answered(writes, FALSE)
    /\ UNCHANGED <<mappings, msg, now, shutdown, last, fn_in, fn_out>>

\* a variant that goes on to the next row after a write the sink refused
RowInsertDone_continue(ok) ==
    /\ pc = "row_insert"
    /\ IF todo = <<>>
       THEN /\ pc' = "poll"
            /\ result' = IF ok THEN Ok(Unit) ELSE Err("Failed to insert into table")
            /\ todo' = <<>>
            /\ writes' = Answered(writes, ok)
       ELSE /\ pc' = "row_insert"
            /\ result' = Running
            /\ todo' = Tail(todo)
            /\ writes' = Append(Answered(writes, ok), RowWrite(Head(todo)))
    /\ UNCHANGED <<mappings, msg, now, shutdown, last, fn_in, fn_out>>

(* insert_row's execute answers: the loop of execute_expanded_mapping goes  *)
(* on to the next row, or the message is done                               *)
RowInsertDone(ok) ==
    /\ pc = "row_insert"
    /\ IF ~ok
       THEN /\ pc' = "poll"
            /\ result' = Err("Failed to insert into table")
            /\ todo' = <<>>
            /\ writes' = Answered(writes, FALSE)
       ELSE IF todo = <<>>
       THEN /\ pc' = "poll"
            /\ result' = Ok(Unit)
            /\ todo' = <<>>
            /\ writes' = Answered(writes, TRUE)
       ELSE /\ pc' = "row_insert"
            /\ result' = Running
            /\ todo' = Tail(todo)
            /\ writes' = Append(Answered(writes, TRUE), RowWrite(Head(todo)))
    /\ UNCHANGED <<mappings, msg, now, shutdown, last, fn_in, fn_out>>

\* handle_event on ConnAck, SubAck, any other incoming or outgoing packet
IgnoredEvent ==
    /\ pc = "poll"
    /\ last' = "ignored"
    /\ UNCHANGED <<pc, mappings, msg, writes, todo, result, now, shutdown, fn_in, fn_out>>

\* run: poll() returns an error; sleep, then poll again
ConnectionError ==
    /\ pc = "poll"
    /\ last' = "connection_error"
    /\ UNCHANGED <<pc, mappings, msg, writes, todo, result, now, shutdown, fn_in, fn_out>>

\* Ctrl+C: the spawned task sends on the shutdown channel
Shutdown ==
    /\ pc \notin {"stopped", "panicked"}
    /\ ~shutdown
    /\ shutdown' = TRUE
    /\ UNCHANGED <<pc, mappings, msg, writes, todo, result, now, last, fn_in, fn_out>>

\* a variant in which the shutdown signal cuts the handling of a message short
Stop_midway ==
    /\ pc \notin {"stopped", "panicked"}
    /\ shutdown
    /\ pc' = "stopped"
    /\ UNCHANGED <<mappings, msg, writes, todo, result, now, shutdown, last, fn_in, fn_out>>

\* run: select! takes shutdown_rx.recv() and breaks
Stop ==
    /\ pc = "poll"
    /\ shutdown
    /\ pc' = "stopped"
    /\ UNCHANGED <<mappings, msg, writes, todo, result, now, shutdown, last, fn_in, fn_out>>

\* time passes
Tick ==
    /\ pc \notin {"stopped", "panicked"}
    /\ now < MaxClock
    /\ now' = now + 1
    /\ UNCHANGED <<pc, mappings, msg, writes, todo, result, shutdown, last, fn_in, fn_out>>

Next ==
    \/ \E topic \in Topics, payload \in Payloads : Receive(topic, payload)
    \/ \E ok \in BOOLEAN : RawInsertDone(ok)
    \/ \E ok \in BOOLEAN : RowInsertDone(ok)
    \/ IgnoredEvent
    \/ ConnectionError
    \/ Shutdown
    \/ Stop
    \/ Tick

Spec == Init /\ [][Next]_vars

----------------------------------------------------------------------------
(* The functions on their own: an input is drawn, the function applied.     *)

FnPatternSegments == {"a", "b", "+", "#"}

FnTopicSegments == {"a", "b"}

FnPatterns == { <<"a", "+">>, <<"a", "#">>, <<"#">>, <<"a", "b">>, <<"+">> }

FnRule(pattern) == TopicMapping("rule", pattern, "table", <<>>, None)

FnRuleSets ==
    UNION {[1..n -> {FnRule(p) : p \in FnPatterns}] : n \in 0..MaxRules}

\* per source kind, the settings extract_field_value reads for it
FnFieldMappings ==
    {FieldMapping("Json", path, None, None, None, type, default) :
        path \in {None, Some(DotPath), Some(Path(<<"ts">>)),
                  Some(Path(<<"meta", "loc">>))},
        type \in FieldTypes,
        default \in {None, Some(NowText), Some(PlainText(<<"unknown">>)),
                     Some(IntText(I64(5)))}}
    \cup
    {FieldMapping("Topic", None, extract, None, None, type, default) :
        extract \in {None, Some(InvalidRegex), Some(Regex(<<"d">>, "rest")),
                     Some(Regex(<<"d">>, "none")), Some(Regex(<<"d">>, "optional"))},
        type \in FieldTypes,
        default \in {None, Some(NowText), Some(PlainText(<<"unknown">>)),
                     Some(IntText(I64(5)))}}
    \cup
    {FieldMapping(source, None, None, value, None, type, default) :
        source \in {"CurrentTime", "Constant"},
        value \in {None, Some(PlainText(<<"lab">>))},
        type \in FieldTypes,
        default \in {None, Some(NowText), Some(PlainText(<<"unknown">>))}}

FnTopics == { <<"d">>, <<"d", "x">>, <<"d", NumeralSegment>>, <<"e", "x">> }

FnDocs == { doc_full, doc_short, doc_text_temp, JInt(5) }

\* epoch counts around the bounds of the timestamp branch of convert_value
EpochSeconds ==
    { I64(0), I64(1), I64(0 - 5), I64(4102444), I64(4102445),
      [hi |-> 1700, lo |-> 0], TS_MS_THRESHOLD,
      [hi |-> TS_MS_THRESHOLD.hi, lo |-> TS_MS_THRESHOLD.lo + 1] }

EpochMillis ==
    { [hi |-> 1700000, lo |-> 0], [hi |-> 1700000, lo |-> 123],
      [hi |-> TS_MS_THRESHOLD.hi * 1000 + 444, lo |-> 800000] }

\* a count of seconds before the first instant chrono holds
EpochOutOfRange == { [hi |-> FROM_TIMESTAMP_MIN.hi - 1, lo |-> 0] }

FnValues ==
    {JStr(IntText(n)) : n \in EpochSeconds \cup EpochMillis \cup EpochOutOfRange}
    \cup
    {[k |-> "num", int |-> TRUE, f |-> F64(n, 0)] :
        n \in {I64(5), [hi |-> 1700, lo |-> 0], [hi |-> 1700000, lo |-> 0]}}
    \cup
    { JNull, JBool(TRUE), JFloat(2, 4), JArr(<<JInt(1)>>), doc_short,
      JStr(PlainText(<<"warm">>)), JStr(DecText(F64(I64(2), 4))),
      JStr(BoolText(FALSE)), JStr(some_time), JStr(RfcText(NowInstant(0))) }

FnRegexes ==
    { InvalidRegex, Regex(<<"d">>, "rest"), Regex(<<"d">>, "none"),
      Regex(<<"d">>, "optional"), Regex(<<"e", "x">>, "optional") }

FnInputs ==
    {[op |-> "extract_from_topic", topic |-> topic, regex |-> regex] :
        topic \in FnTopics, regex \in FnRegexes}
    \cup
    {[op |-> "convert_value", value |-> value, target_type |-> target_type] :
        value \in FnValues, target_type \in FieldTypes}
    \cup
    {[op |-> "topic_matches", pattern |-> pattern, topic |-> topic] :
        pattern \in SegSeqs(FnPatternSegments, MaxSegs),
        topic \in SegSeqs(FnTopicSegments, MaxSegs)}
    \cup
    {[op |-> "find_mapping", rules |-> rules, topic |-> topic] :
        rules \in FnRuleSets, topic \in SegSeqs(FnTopicSegments, MaxSegs)}
    \cup
    {[op |-> "extract_field_value", topic |-> topic, json |-> json,
      mapping |-> mapping, clock |-> clock] :
        topic \in FnTopics, json \in FnDocs, mapping \in FnFieldMappings,
        clock \in 0..MaxClock}

Out(v) == [r |-> "out", v |-> v]

InitFn ==
    /\ pc = "idle"
    /\ mappings = <<>>
    /\ msg = NoMessage
    /\ writes = <<>>
    /\ todo = <<>>
    /\ result = Running
    /\ now = 0
    /\ shutdown = FALSE
    /\ last = "none"
    /\ fn_in \in FnInputs
    /\ fn_out = NoOutput

ApplyTopicMatches ==
    /\ fn_in.op = "topic_matches"
    /\ fn_out = NoOutput
    /\ fn_out' = Out(topic_matches(fn_in.pattern, fn_in.topic))
    /\ UNCHANGED <<bridge_vars, fn_in>>

ApplyFindMapping ==
    /\ fn_in.op = "find_mapping"
    /\ fn_out = NoOutput
    /\ fn_out' = Out(find_mapping(fn_in.rules, fn_in.topic))
    /\ UNCHANGED <<bridge_vars, fn_in>>

ApplyExtractFieldValue ==
    /\ fn_in.op = "extract_field_value"
    /\ fn_out = NoOutput
    /\ fn_out' = Out(extract_field_value(fn_in.topic, fn_in.json, fn_in.mapping,
                                         fn_in.clock))
    /\ UNCHANGED <<bridge_vars, fn_in>>

ApplyConvertValue ==
    /\ fn_in.op = "convert_value"
    /\ fn_out = NoOutput
    /\ fn_out' = Out(convert_value(fn_in.value, fn_in.target_type))
    /\ UNCHANGED <<bridge_vars, fn_in>>

ApplyExtractFromTopic ==
    /\ fn_in.op = "extract_from_topic"
    /\ fn_out = NoOutput
    /\ fn_out' = Out(extract_from_topic(fn_in.topic, fn_in.regex))
    /\ UNCHANGED <<bridge_vars, fn_in>>

NextFn ==
    \/ ApplyExtractFromTopic
    \/ ApplyTopicMatches
    \/ ApplyFindMapping
    \/ ApplyExtractFieldValue
    \/ ApplyConvertValue

SpecFn == InitFn /\ [][NextFn]_vars

Applied(op) == fn_in.op = op /\ fn_out.r = "out"

----------------------------------------------------------------------------
(* C1.  For every pattern and topic, topic_matches is true if and only if   *)
(* every literal or '+' pattern segment aligns 1:1 with a topic segment     *)
(* (literal equal, '+' any content) and either both sequences end together  *)
(* (no '#' in the pattern) or the pattern ends in '#' and all the segments  *)
(* before the '#' matched.                                                  *)
SegmentAligns(pattern, topic, i) ==
    i <= Len(topic) /\ (pattern[i] = "+" \/ pattern[i] = topic[i])

AlignedMatch(pattern, topic) ==
    \/ /\ \A i \in 1..Len(pattern) : pattern[i] # "#"
       /\ Len(pattern) = Len(topic)
       /\ \A i \in 1..Len(pattern) : SegmentAligns(pattern, topic, i)
    \/ /\ pattern[Len(pattern)] = "#"
       /\ \A i \in 1..(Len(pattern) - 1) :
            pattern[i] # "#" /\ SegmentAligns(pattern, topic, i)

C1_MatchesIffAligned ==
    Applied("topic_matches") =>
        (fn_out.v <=> AlignedMatch(fn_in.pattern, fn_in.topic))

(* C2.  find_mapping returns the rule of lowest index among the rules whose *)
(* pattern matches the topic (as topic_matches decides it), and none        *)
(* exactly when no pattern matches: a later matching rule is never selected *)
(* when an earlier one matches.                                             *)
C2_FirstMatchingRule ==
    Applied("find_mapping") =>
        LET matching == {i \in 1..Len(fn_in.rules) :
                            topic_matches(fn_in.rules[i].topic_pattern, fn_in.topic)}
        IN  /\ (fn_out.v = 0 <=> matching = {})
            /\ matching # {} =>
                 fn_out.v \in matching /\ \A j \in matching : fn_out.v <= j

\* two rules match, and the first one is returned
C2_Witness ==
    /\ Applied("find_mapping")
    /\ Len(fn_in.rules) = 2
    /\ fn_in.rules[1].topic_pattern # fn_in.rules[2].topic_pattern
    /\ \A i \in 1..2 : topic_matches(fn_in.rules[i].topic_pattern, fn_in.topic)
    /\ fn_out.v = 1

----------------------------------------------------------------------------
(* The message being handled, as the claims speak of it. *)

Decodable == msg # NoMessage /\ msg.payload.utf8

Undecodable == msg # NoMessage /\ ~msg.payload.utf8

\* execute_mappings has returned (or panicked) for the message
Done == result # Running

Document == from_str(msg.payload.text)

Selected == find_mapping(mappings, msg.topic)

RawWrites == {i \in DOMAIN writes : writes[i].kind = "raw"}

RowWrites == {i \in DOMAIN writes : writes[i].kind = "row"}

AllWritesOk == \A i \in DOMAIN writes : writes[i].status = "ok"

WrittenRows == {Row(writes[i].table, writes[i].data) : i \in RowWrites}

StandardMode ==
    /\ Decodable
    /\ Document.some
    /\ Selected # 0
    /\ ~expansion_enabled(mappings[Selected])

ExpansionMode ==
    /\ Decodable
    /\ Document.some
    /\ Selected # 0
    /\ expansion_enabled(mappings[Selected])

\* the outcome of one field of the selected rule, taken on its own
FieldOutcome(f) ==
    extract_field_value(msg.topic, Document.v, mappings[Selected].fields[f], now)

FieldFails(f) == FieldOutcome(f).r # "ok"

FieldHasValue(f) == FieldOutcome(f).r = "ok" /\ FieldOutcome(f).v.some

(* C3.  A message whose processing fails (an extraction, conversion or      *)
(* structural error, or any other failure of execute_mappings) never halts  *)
(* the bridge: the run loop is back at its poll, and it stops only on the   *)
(* shutdown signal.                                                         *)
C3_FailureNeverHalts ==
    /\ pc # "panicked"
    /\ result.r \in {"err", "panic"} => pc \in {"poll", "stopped"}
    /\ pc = "stopped" => shutdown

(* C4.  For every message whose payload decodes as UTF-8, exactly one       *)
(* raw-audit write (topic, decoded text, receipt timestamp) is issued, and  *)
(* it is issued before any mapped row write, whatever happens afterwards.   *)
C4_OneRawWriteFirst ==
    Decodable =>
        /\ Len(writes) >= 1
        /\ RawWrites = {1}
        /\ writes[1].topic = msg.topic
        /\ writes[1].payload = msg.payload.text
        /\ \E n \in 0..now : writes[1].timestamp = NowInstant(n)

\* a message done with two mapped rows written after its audit row
C4_Witness ==
    /\ Decodable
    /\ result = Ok(Unit)
    /\ Len(writes) >= 3
    /\ AllWritesOk

(* C5, as stated.  A decodable message whose payload is not valid JSON, or  *)
(* whose topic matches no rule, produces exactly one raw-audit row and zero *)
(* mapped rows, and execute_mappings returns success.                       *)
NothingToMap == Decodable /\ (~Document.some \/ Selected = 0)

C5_AuditOnlyAndSuccess ==
    (NothingToMap /\ Done) =>
        /\ Len(writes) = 1
        /\ writes[1].kind = "raw"
        /\ writes[1].status = "ok"
        /\ result = Ok(Unit)

(* C5, amended.  Such a message has exactly one raw-audit write and no      *)
(* mapped row write; execute_mappings returns success when the sink takes   *)
(* the audit row, and the sink's error when it does not.                    *)
C5_AuditOnly ==
    NothingToMap =>
        /\ Len(writes) = 1
        /\ writes[1].kind = "raw"
        /\ Done => (writes[1].status = "ok" <=> result = Ok(Unit))
        /\ Done => (writes[1].status = "failed" <=> result.r = "err")

\* text that is no JSON, on a topic that a rule matches: audit row only
C5_Witness ==
    /\ Decodable
    /\ ~Document.some
    /\ Selected # 0
    /\ result = Ok(Unit)
    /\ Len(writes) = 1
    /\ writes[1].status = "ok"

(* C6.  A message whose payload is not valid UTF-8 is dropped: no raw-audit *)
(* write and no mapped row write is issued for it, and execute_mappings     *)
(* returns success.                                                         *)
C6_UndecodableDropped ==
    Undecodable =>
        /\ writes = <<>>
        /\ todo = <<>>
        /\ result = Ok(Unit)
        /\ pc \in {"poll", "stopped"}

C6_Witness ==
    /\ Undecodable
    /\ Selected # 0
    /\ result = Ok(Unit)
    /\ writes = <<>>

(* C7.  In standard mode a message produces at most one mapped row write,   *)
(* and if the extraction or conversion of any one field of the rule fails,  *)
(* no mapped row write is issued for it: a row that is written holds every  *)
(* field of the rule that has a value, in whatever order the fields were    *)
(* visited.                                                                 *)
C7_WholeRowOrNone ==
    StandardMode =>
        /\ Cardinality(RowWrites) <= 1
        /\ (\E f \in DOMAIN mappings[Selected].fields : FieldFails(f)) => RowWrites = {}
        /\ \A i \in RowWrites :
              Columns(writes[i].data) =
                 {target_of(mappings[Selected].fields, f) :
                     f \in {g \in DOMAIN mappings[Selected].fields : FieldHasValue(g)}}

\* one field fails, another has a value, the audit row is in: no row written
C7_Witness ==
    /\ StandardMode
    /\ Done
    /\ writes[1].status = "ok"
    /\ \E f \in DOMAIN mappings[Selected].fields : FieldFails(f)
    /\ \E f \in DOMAIN mappings[Selected].fields : FieldHasValue(f)
    /\ RowWrites = {}

(* C8, as stated.  In expansion mode on an object payload, all sink writes *)
(* succeeding, the rows written are exactly one row per top-level member    *)
(* whose name is not in exclude and whose value is numeric, each the base   *)
(* fields (the converted values of the fields named in include_fields, by   *)
(* target column) plus the sensor-name column holding the member key as     *)
(* String and the value column holding the member value as Number.          *)
ExpandSettings == mappings[Selected].expand_numeric_fields.v

IncludedFields == DOMAIN mappings[Selected].fields \cap ExpandSettings.include_fields

Qualifying ==
    {i \in 1..Len(Document.v.members) :
        /\ Document.v.members[i].key \notin ExpandSettings.exclude
        /\ Document.v.members[i].val.k = "num"}

\* the base fields, had the clock read n when they were extracted
BaseFieldsAt(n) ==
    {[col |-> target_of(mappings[Selected].fields, f),
      val |-> extract_field_value(msg.topic, Document.v,
                                  mappings[Selected].fields[f], n).v.v] :
        f \in {g \in IncludedFields : FieldHasValue(g)}}

ExpectedData(i, n) ==
    {c \in BaseFieldsAt(n) :
        c.col \notin {ExpandSettings.sensor_name_from, ExpandSettings.value_from}}
    \cup {[col |-> ExpandSettings.sensor_name_from,
           val |-> FieldValue("String", Text(<<Document.v.members[i].key>>))] :
            x \in IF ExpandSettings.sensor_name_from = ExpandSettings.value_from
                  THEN {} ELSE {1}}
    \cup {[col |-> ExpandSettings.value_from,
           val |-> FieldValue("Number", Document.v.members[i].val.f)]}

ExpectedRows(n) ==
    {Row(mappings[Selected].table, ExpectedData(i, n)) : i \in Qualifying}

RowsAsExpected ==
    /\ Cardinality(RowWrites) = Cardinality(Qualifying)
    /\ \E n \in 0..now : WrittenRows = ExpectedRows(n)

C8_OneRowPerNumericMember ==
    (ExpansionMode /\ Document.v.k = "obj" /\ Done /\ AllWritesOk) => RowsAsExpected

(* C8, amended.  The same, provided every field named in include_fields is  *)
(* extracted and converted without failure; when one of them fails, no row  *)
(* is written for the message and execute_mappings does not succeed.        *)
C8_OneRowPerNumericMemberOfGoodBase ==
    (ExpansionMode /\ Document.v.k = "obj" /\ Done) =>
        IF \E f \in IncludedFields : FieldFails(f)
        THEN RowWrites = {} /\ result.r # "ok"
        ELSE AllWritesOk => RowsAsExpected

\* two rows written, a numeric member left out because it is excluded, and
\* base columns shared by the rows
C8_Witness ==
    /\ ExpansionMode
    /\ Document.v.k = "obj"
    /\ result = Ok(Unit)
    /\ AllWritesOk
    /\ Cardinality(RowWrites) = 2
    /\ \E i \in 1..Len(Document.v.members) :
          /\ Document.v.members[i].key \in ExpandSettings.exclude
          /\ Document.v.members[i].key \in ExpandSettings.include_fields
          /\ Document.v.members[i].val.k = "num"
    /\ \E n \in 0..now : Cardinality(BaseFieldsAt(n)) >= 3

(* C9.  When the selected rule has expansion enabled and the parsed payload *)
(* is not a JSON object, processing fails and no mapped row is written for  *)
(* the message.                                                             *)
C9_NonObjectFails ==
    (ExpansionMode /\ Document.v.k # "obj") =>
        /\ RowWrites = {}
        /\ todo = <<>>
        /\ Done => result.r # "ok"

\* the base fields were extracted, and the payload then found to be no object
C9_Witness ==
    /\ ExpansionMode
    /\ Document.v.k # "obj"
    /\ writes[1].status = "ok"
    /\ result = Err("JSON is not an object")

(* C10, as stated.  When a field's source yields absent: with no default    *)
(* the field is omitted and the message does not fail; with default "now"   *)
(* the column holds the current UTC instant; with any other default that    *)
(* string is used as the raw value.  A CurrentTime or Constant source never *)
(* consults the default.                                                    *)
SourceAbsent ==
    raw_value(fn_in.topic, fn_in.json, fn_in.mapping, fn_in.clock) = Ok(None)

\* extract_field_value's result for the raw value v
Converted(v) ==
    IF convert_value(v, fn_in.mapping.type).r = "ok"
    THEN Ok(Some(convert_value(v, fn_in.mapping.type).v))
    ELSE convert_value(v, fn_in.mapping.type)

HoldsCurrentInstant(out) ==
    /\ out.r = "ok"
    /\ out.v.some
    /\ out.v.v \in {FieldValue("Timestamp", NowInstant(fn_in.clock)),
                    FieldValue("String", RfcText(NowInstant(fn_in.clock)))}

C10_OmittedOrVerbatim ==
    /\ (SourceAbsent /\ ~fn_in.mapping.default.some) => fn_out.v = Ok(None)
    /\ (SourceAbsent /\ fn_in.mapping.default.some /\ fn_in.mapping.default.v # NowText)
          => fn_out.v = Converted(JStr(fn_in.mapping.default.v))
    /\ fn_in.mapping.source \in {"CurrentTime", "Constant"}
          => fn_out.v = extract_field_value(fn_in.topic, fn_in.json,
                            [fn_in.mapping EXCEPT !.default = None], fn_in.clock)

C10_AbsentAndDefault ==
    Applied("extract_field_value") =>
        /\ C10_OmittedOrVerbatim
        /\ (SourceAbsent /\ fn_in.mapping.default = Some(NowText))
              => HoldsCurrentInstant(fn_out.v)

(* C10, amended.  With default "now" the raw value is the RFC3339 text of   *)
(* the current UTC instant, converted to the field's type like any raw      *)
(* value: a Timestamp column holds the instant, a String column its text,   *)
(* and for Number, Integer and Boolean the conversion, and with it the      *)
(* message, fails.  The rest as stated.                                     *)
C10_AbsentAndDefaultConverted ==
    Applied("extract_field_value") =>
        /\ C10_OmittedOrVerbatim
        /\ (SourceAbsent /\ fn_in.mapping.default = Some(NowText))
              => IF fn_in.mapping.type \in {"Timestamp", "String"}
                 THEN HoldsCurrentInstant(fn_out.v)
                      /\ fn_out.v.v.v.tag = fn_in.mapping.type
                 ELSE fn_out.v.r = "err"

\* a missing payload member, default "now", a Timestamp column: the clock's instant
C10_Witness ==
    /\ Applied("extract_field_value")
    /\ SourceAbsent
    /\ fn_in.mapping.source = "Json"
    /\ fn_in.mapping.default = Some(NowText)
    /\ fn_in.mapping.type = "Timestamp"
    /\ fn_in.clock >= 1
    /\ fn_out.v = Ok(Some(FieldValue("Timestamp", NowInstant(fn_in.clock))))

(* C11.  In every row handed to the sink, the value stored for a field of   *)
(* the selected rule carries the tag of that field's declared type,         *)
(* whatever the field's source and also when the value came from a default  *)
(* or from "now": the value is the one convert_value made for the field,    *)
(* so a value that cannot be coerced is in no row.                          *)
RowFields ==
    IF ExpansionMode THEN IncludedFields ELSE DOMAIN mappings[Selected].fields

\* the columns execute_expanded_mapping sets itself, not from a field
SynthesizedColumns ==
    IF ExpansionMode
    THEN {ExpandSettings.sensor_name_from, ExpandSettings.value_from}
    ELSE {}

C11_TagIsDeclaredType ==
    \A i \in RowWrites : \A c \in writes[i].data :
        \/ c.col \in SynthesizedColumns
        \/ \E f \in RowFields, n \in 0..now :
              /\ target_of(mappings[Selected].fields, f) = c.col
              /\ c.val.tag = mappings[Selected].fields[f].type
              /\ extract_field_value(msg.topic, Document.v,
                                     mappings[Selected].fields[f], n) = Ok(Some(c.val))

\* a row with a String from the topic, a Number from the payload and a
\* Timestamp from the default "now", the payload having no "ts"
C11_Witness ==
    /\ StandardMode
    /\ ~value_get(Document.v, "ts").some
    /\ \E i \in RowWrites :
          /\ {c.val.tag : c \in writes[i].data} = {"String", "Number", "Timestamp"}
          /\ \E c \in writes[i].data, n \in 0..now :
                c.col = "ts" /\ c.val = FieldValue("Timestamp", NowInstant(n))

----------------------------------------------------------------------------
(* C12, as stated.  Converting the epoch value 1700000000 and the epoch     *)
(* value 1700000000000 to Timestamp yields the same instant, and for every  *)
(* whole number of seconds s, converting s and converting 1000 * s yield    *)
(* the same instant.                                                        *)
I64MulThousand(a) ==
    [hi |-> a.hi * 1000 + ((a.lo * 1000) \div Base), lo |-> (a.lo * 1000) % Base]

EpochText(n) == JStr(IntText(n))

\* convert_value was applied to the text of s seconds, for Timestamp
ConvertedSeconds ==
    /\ Applied("convert_value")
    /\ fn_in.target_type = "Timestamp"
    /\ \E s \in EpochSeconds : fn_in.value = EpochText(s)

Seconds == fn_in.value.s.v

SameInstantAsMillis ==
    fn_out.v = convert_value(EpochText(I64MulThousand(Seconds)), "Timestamp")

C12_SecondsAndMillisAgree == ConvertedSeconds => SameInstantAsMillis

(* C12, amended.  Converting s and converting 1000 * s yield the same       *)
(* instant exactly when s = 0 or 4,102,445 <= s <= 4,102,444,800, that is   *)
(* when 1000 * s exceeds the threshold and s does not; 1700000000 is such   *)
(* an s.  For every other s the two instants differ.                        *)
InAgreementWindow(s) ==
    \/ s = I64(0)
    \/ I64Gt(I64MulThousand(s), TS_MS_THRESHOLD) /\ ~I64Gt(s, TS_MS_THRESHOLD)

C12_SecondsAndMillisAgreeInWindow ==
    ConvertedSeconds =>
        /\ fn_out.v.r = "ok"
        /\ InAgreementWindow(Seconds) <=> SameInstantAsMillis
        /\ Seconds = [hi |-> 1700, lo |-> 0] => SameInstantAsMillis

\* 1700000000 and 1700000000000 both give the instant 1700000000 s
C12_Witness ==
    /\ ConvertedSeconds
    /\ Seconds = [hi |-> 1700, lo |-> 0]
    /\ I64MulThousand(Seconds) = [hi |-> 1700000, lo |-> 0]
    /\ fn_out.v = Ok(FieldValue("Timestamp", Instant([hi |-> 1700, lo |-> 0], 0)))
    /\ SameInstantAsMillis

(* C13.  Timestamp conversion of a text that is not RFC3339 but parses as   *)
(* an integer n reads n as milliseconds exactly when n > 4,102,444,800 and  *)
(* as seconds otherwise: 4,102,444,800 itself, zero and negative n are      *)
(* seconds.  The instant read is the result whenever chrono can hold it.    *)
(* Input that is no text, and text that is neither RFC3339 nor an integer,  *)
(* fail conversion.                                                         *)
ConvertedToTimestamp ==
    Applied("convert_value") /\ fn_in.target_type = "Timestamp"

IsIntegerText(v) == v.k = "str" /\ v.s.txt = "int"

\* n read as seconds, and n >= 0 read as milliseconds
AsSeconds(n) == Instant(n, 0)

AsMillis(n) ==
    Instant([hi |-> n.hi \div 1000, lo |-> (n.hi % 1000) * 1000 + (n.lo \div 1000)],
            (n.lo % 1000) * 1000000)

Holdable(instant) ==
    /\ ~I64Gt(FROM_TIMESTAMP_MIN, instant.secs)
    /\ ~I64Gt(instant.secs, FROM_TIMESTAMP_MAX)

InstantRead(n) ==
    IF n.hi > 4102 \/ (n.hi = 4102 /\ n.lo > 444800) THEN AsMillis(n) ELSE AsSeconds(n)

C13_MillisAboveThresholdOnly ==
    ConvertedToTimestamp =>
        /\ IsIntegerText(fn_in.value) =>
              IF Holdable(InstantRead(fn_in.value.s.v))
              THEN fn_out.v = Ok(FieldValue("Timestamp", InstantRead(fn_in.value.s.v)))
              ELSE fn_out.v.r = "err"
        /\ fn_in.value.k # "str" => fn_out.v.r = "err"
        /\ (fn_in.value.k = "str" /\ fn_in.value.s.txt \notin {"int", "rfc"})
              => fn_out.v.r = "err"
        /\ fn_in.value = EpochText(TS_MS_THRESHOLD)
              => fn_out.v = Ok(FieldValue("Timestamp", AsSeconds(TS_MS_THRESHOLD)))
        /\ fn_in.value = EpochText(I64(0 - 5))
              => fn_out.v = Ok(FieldValue("Timestamp", AsSeconds(I64(0 - 5))))

\* the text 4102444800, the largest count read as seconds
C13_Witness ==
    /\ ConvertedToTimestamp
    /\ fn_in.value = EpochText(TS_MS_THRESHOLD)
    /\ fn_out.v = Ok(FieldValue("Timestamp", Instant([hi |-> 4102, lo |-> 444800], 0)))
    /\ convert_value(EpochText([hi |-> 4102, lo |-> 444801]), "Timestamp")
          = Ok(FieldValue("Timestamp", Instant(I64(4102444), 801000000)))

(* C14.  For a valid extraction pattern and any topic, extract_from_topic   *)
(* completes with the text captured by the first group, or with absent; it  *)
(* yields absent whenever the pattern does not match or the match supplies  *)
(* no first-group capture (a pattern without a group, or a group that took  *)
(* no part in the match), and it neither fails nor aborts.                  *)
FirstGroupCapture ==
    IF regex_captures(fn_in.regex, fn_in.topic).some
    THEN regex_captures(fn_in.regex, fn_in.topic).v.g1
    ELSE None

C14_CaptureOrAbsent ==
    (Applied("extract_from_topic") /\ fn_in.regex.valid) =>
        IF FirstGroupCapture.some
        THEN fn_out.v = Ok(Some(JStr(FirstGroupCapture.v)))
        ELSE fn_out.v = Ok(None)

----------------------------------------------------------------------------
(* C15.  A failure of the sink, on the raw-audit write or on a mapped row   *)
(* write, is returned as an error by execute_mappings, and nothing is       *)
(* retried: a write is issued at most once per message, and after a failed  *)
(* write no further write is issued for the message.                        *)
FailedWrites == {i \in DOMAIN writes : writes[i].status = "failed"}

\* the write as issued, whatever the sink answered
Issued(w) == [w EXCEPT !.status = "pending"]

C15_SinkErrorReturnedNoRetry ==
    /\ \A i \in FailedWrites :
          /\ i = Len(writes)
          /\ todo = <<>>
          /\ result = Err(IF writes[i].kind = "raw"
                          THEN "Failed to insert raw message"
                          ELSE "Failed to insert into table")
          /\ pc \in {"poll", "stopped"}
    /\ \A i, j \in DOMAIN writes : i # j => Issued(writes[i]) # Issued(writes[j])

\* two rows to write and the first refused: the second is never issued
C15_Witness ==
    /\ ExpansionMode
    /\ Document.v.k = "obj"
    /\ Cardinality(Qualifying) >= 2
    /\ Len(writes) = 2
    /\ writes[1].status = "ok"
    /\ writes[2].status = "failed"
    /\ result = Err("Failed to insert into table")
    /\ pc = "poll"

(* C16.  The engine keeps no state between messages and never changes the   *)
(* MappingSet: whatever was processed before, the writes issued for a       *)
(* message and the result returned for it are those the message alone       *)
(* gives, with the loaded MappingSet, the clock readings and the sink's     *)
(* answers; and no step changes the MappingSet.                             *)
\* the writes and the result of the message, its rows planned at clock n
\* with the fields visited in the given order
MessageAlone(order, n) ==
    LET plan == mapped_rows(msg.topic, msg.payload.text, mappings, order, n)
        rows == IF plan.r = "ok" THEN plan.v ELSE <<>>
    IN  /\ Len(writes) >= 1
        /\ \E t \in 0..n : writes[1] = [RawWrite(msg.topic, msg.payload.text, NowInstant(t))
                                         EXCEPT !.status = writes[1].status]
        /\ \A i \in 2..Len(writes) :
              /\ i - 1 <= Len(rows)
              /\ Issued(writes[i]) = RowWrite(rows[i - 1])
        /\ Len(writes) > 1 => writes[1].status = "ok"
        /\ Done =>
              IF writes[1].status = "failed"
              THEN result = Err("Failed to insert raw message")
              ELSE IF plan.r # "ok" THEN result = plan /\ Len(writes) = 1
              ELSE IF FailedWrites # {} THEN result = Err("Failed to insert into table")
              ELSE result = Ok(Unit) /\ Len(writes) = 1 + Len(rows)

HistoryFree ==
    /\ Decodable =>
          \E order \in FieldOrders(mappings, msg.topic), n \in 0..now :
              MessageAlone(order, n)
    /\ Undecodable => writes = <<>> /\ result = Ok(Unit)

C16_Stateless == []HistoryFree /\ [][mappings' = mappings]_vars

\* a message received after the clock advanced, done, with a row written
C16_Witness ==
    /\ Decodable
    /\ result = Ok(Unit)
    /\ Len(writes) >= 2
    /\ now >= 1
    /\ \E t \in 0..(now - 1) : writes[1].timestamp = NowInstant(t + 1)

(* C17.  The bridge handles one message to completion before it takes the   *)
(* next event: while a message is being handled no other message is taken,  *)
(* the writes issued stay and are only added to, and the shutdown signal    *)
(* does not stop the bridge; at the poll no write is awaited and no row is  *)
(* left to write.                                                           *)
PendingWrites == {i \in DOMAIN writes : writes[i].status = "pending"}

Handling == pc \in {"raw_insert", "row_insert"}

C17_OneMessageAtATime ==
    [][ /\ pc = "poll" => (todo = <<>> /\ PendingWrites = {})
        /\ Handling => PendingWrites = {Len(writes)}
        /\ Handling =>
              /\ msg' = msg
              /\ pc' # "stopped"
              /\ Len(writes') >= Len(writes)
              /\ \A i \in DOMAIN writes : Issued(writes'[i]) = Issued(writes[i])
              /\ \A i \in DOMAIN writes' : i < Len(writes) => writes'[i] = writes[i]
      ]_vars

\* the shutdown signal has come while the first of two row writes is
\* awaited: the bridge has not stopped
C17_Witness ==
    /\ shutdown
    /\ pc = "row_insert"
    /\ Len(writes) = 2
    /\ todo # <<>>

(* C18.  An empty row is a no-op: when every field of the selected          *)
(* standard-mode rule is absent and has no default, or the rule has no      *)
(* fields, no mapped row write is issued and the message, its audit row     *)
(* written, completes with success.                                         *)
EveryFieldAbsent ==
    /\ StandardMode
    /\ \A f \in DOMAIN mappings[Selected].fields : FieldOutcome(f) = Ok(None)

C18_EmptyRowIsNoOp ==
    EveryFieldAbsent =>
        /\ RowWrites = {}
        /\ todo = <<>>
        /\ (Done /\ writes[1].status = "ok") => result = Ok(Unit)

\* a rule of two fields, both absent without default: audit row only, success
C18_Witness ==
    /\ EveryFieldAbsent
    /\ Cardinality(DOMAIN mappings[Selected].fields) = 2
    /\ writes[1].status = "ok"
    /\ Len(writes) = 1
    /\ result = Ok(Unit)

(* C19, as stated.  In expansion mode each synthesized row is handed to the *)
(* sink on its own, one write per row: for every qualifying member exactly  *)
(* one write is issued, also when the write of another member's row fails.  *)
ExpansionReached ==
    /\ ExpansionMode
    /\ Document.v.k = "obj"
    /\ writes[1].status = "ok"
    /\ \A f \in IncludedFields : ~FieldFails(f)

\* the k-th qualifying member, in the object's order
NthQualifying(k) ==
    CHOOSE m \in Qualifying : Cardinality({x \in Qualifying : x < m}) = k - 1

\* the row writes are those of the first qualifying members, one each
OneWriteEach ==
    /\ Cardinality(RowWrites) <= Cardinality(Qualifying)
    /\ \E n \in 0..now :
          \A i \in RowWrites : writes[i].data = ExpectedData(NthQualifying(i - 1), n)

C19_OneWritePerMember ==
    (ExpansionReached /\ Done) =>
        /\ OneWriteEach
        /\ Cardinality(RowWrites) = Cardinality(Qualifying)

(* C19, amended.  The rows are written one at a time in the object's member *)
(* order, each write awaited before the next is issued: every qualifying    *)
(* member gets exactly one write as long as no write fails; when a write    *)
(* fails, no write is issued for the members after it.                      *)
C19_OneWritePerMemberUntilFailure ==
    ExpansionReached =>
        /\ OneWriteEach
        /\ \A i \in DOMAIN writes : i < Len(writes) => writes[i].status = "ok"
        /\ Done => IF FailedWrites = {}
                   THEN Cardinality(RowWrites) = Cardinality(Qualifying)
                   ELSE FailedWrites = {Len(writes)}

\* two qualifying members, one write each, the second refused
C19_Witness ==
    /\ ExpansionReached
    /\ Cardinality(Qualifying) = 2
    /\ Len(writes) = 3
    /\ writes[2].status = "ok"
    /\ writes[3].status = "failed"
    /\ result = Err("Failed to insert into table")

----------------------------------------------------------------------------
(* C20.  The policy of '#' in topic_matches: a '#' segment succeeds only if *)
(* the topic still has a segment at its position.  For a pattern            *)
(* p1/.../pk/# and a topic of exactly k segments that match p1..pk the      *)
(* result is false ("device/#" does not match "device"); for a topic of     *)
(* more than k segments whose first k match p1..pk it is true.              *)
\* the position of the first '#' of the pattern, 0 if it has none
FirstHash(pattern) ==
    IF \E i \in 1..Len(pattern) : pattern[i] = "#"
    THEN CHOOSE i \in 1..Len(pattern) :
            pattern[i] = "#" /\ \A j \in 1..(i - 1) : pattern[j] # "#"
    ELSE 0

PrefixAligns(pattern, topic, k) ==
    \A i \in 1..k : SegmentAligns(pattern, topic, i)

====
